---- MODULE Spec2Model ----
(***************************************************************************)
(* Model of the Instagram reposting bot: the Telegram chat front end       *)
(* (main.py), the repost job (repost.py) and the scheduler loop            *)
(* (scheduler.py).  The two modules main.py and repost.py each hold their  *)
(* own module-level user_settings mapping, loaded from user_settings.json  *)
(* when the module is imported and written back by save_settings().        *)
(*                                                                         *)
(* A text is a sequence of atoms: " " (white space), ":" and word atoms    *)
(* (a run of other characters).  Time is counted in seconds.               *)
(***************************************************************************)
EXTENDS Integers, Sequences, FiniteSets, TLC

VARIABLES
    file,            \* user_settings.json: [exists, data]
    main_settings,   \* main.py  user_settings (chat front end process)
    repost_settings, \* repost.py user_settings (scheduler process)
    pc,              \* position of the scheduler process
    now,             \* wall clock, seconds
    next_run,        \* schedule: due time of the check_and_repost job
    sweep_rest,      \* check_and_repost: users the outer for-loop has yet to visit
    cur_user,        \* check_and_repost: user_id being processed
    src_rest,        \* check_and_repost: sources the source loop has yet to visit
    cur_source,      \* check_and_repost: source being processed
    media_rest,      \* check_and_repost: media items the media loop has yet to visit
    calls,           \* Platform Client calls made by the current pass, in order
    pass_settings,   \* repost.py user_settings as it was when the current pass began
    pass_file,       \* user_settings.json as it was when the current pass began
    failures,        \* Platform Client failures injected in the current pass
    in_flight,       \* check_and_repost invocations that have not returned
    posted,          \* what earlier passes have uploaded to the destination accounts:
                     \* <<user, pk of the source item>>
    chat_ops,        \* chat handler invocations still allowed
    reply            \* how the last handler ended: the message shown, or the exception
                     \* it raised: [msg, shown]

vars == <<file, main_settings, repost_settings, pc, now, next_run, sweep_rest,
          cur_user, src_rest, cur_source, media_rest, calls, pass_settings,
          pass_file, failures, in_flight, posted, chat_ops, reply>>

jobVars == <<repost_settings, pc, now, next_run, sweep_rest, cur_user, src_rest,
             cur_source, media_rest, calls, pass_settings, pass_file, failures,
             in_flight, posted>>

chatVars == <<main_settings, chat_ops, reply>>

-----------------------------------------------------------------------------
(* Bounds *)

MaxTime == 140       \* the clock stops the model here
MaxFailures == 2     \* Platform Client failures per pass
MaxChatOps == 4      \* chat handler invocations, chat front end alone
MaxSysChatOps == 2   \* chat handler invocations, whole system
SlowCallSeconds == 70 \* how long a slow Platform Client call takes

(* Program constants *)

EverySeconds == 60   \* schedule.every(1).minutes
SleepSeconds == 10   \* time.sleep(10) of the scheduler loop
DelaySeconds == 5    \* time.sleep(5) before each repost
MediaCount == 5      \* client.user_medias_gql(source, 5)
PhotoType == 1
VideoType == 2
CarouselType == 8

-----------------------------------------------------------------------------
(* Values *)

None == <<>>
Some(x) == <<x>>

UserIds == {"u1", "u2"}
SysUserIds == {"u1"}

Alice == <<"alice">>
Bob == <<"bob">>

\* the texts a user sends, and the handles carried by remove_source buttons
Texts == { <<"alice">>, <<" ", "alice", " ">>, <<"bob">>,
           <<"alice", ":", " ", "pw">>, <<":">> }

IsSpace(c) == c = " "

RECURSIVE lstrip(_)
lstrip(t) == IF t # <<>> /\ IsSpace(Head(t)) THEN lstrip(Tail(t)) ELSE t

RECURSIVE rstrip(_)
rstrip(t) ==
    IF t # <<>> /\ IsSpace(t[Len(t)]) THEN rstrip(SubSeq(t, 1, Len(t) - 1)) ELSE t

\* str.strip()
strip(t) == rstrip(lstrip(t))

\* ":" in text
HasColon(t) == \E i \in 1..Len(t) : t[i] = ":"

FirstColon(t) == CHOOSE i \in 1..Len(t) : t[i] = ":" /\ \A j \in 1..(i - 1) : t[j] # ":"

\* text.split(":", 1), for a text that holds a ":"
SplitColon(t) ==
    <<SubSeq(t, 1, FirstColon(t) - 1), SubSeq(t, FirstColon(t) + 1, Len(t))>>

\* x in list
InList(x, s) == \E i \in 1..Len(s) : s[i] = x

\* list.remove(x): drops the first occurrence
RECURSIVE ListRemove(_, _)
ListRemove(s, x) ==
    IF s = <<>> THEN <<>>
    ELSE IF Head(s) = x THEN Tail(s)
    ELSE <<Head(s)>> \o ListRemove(Tail(s), x)

Min(a, b) == IF a < b THEN a ELSE b

\* datetime.now().strftime("%Y-%m-%d %H:%M:%S"): the clock reading, to the second
Timestamp(t) == Some(t)

-----------------------------------------------------------------------------
(* The settings mapping: a Python dict, kept in insertion order *)

Has(m, u) == \E i \in 1..Len(m) : m[i].id = u

Idx(m, u) == CHOOSE i \in 1..Len(m) : m[i].id = u

Get(m, u) == m[Idx(m, u)].settings

Put(m, u, s) ==
    IF Has(m, u) THEN [m EXCEPT ![Idx(m, u)].settings = s]
    ELSE Append(m, [id |-> u, settings |-> s])

Keys(m) == [i \in 1..Len(m) |-> m[i].id]

\* the record get_user_settings creates
DefaultSettings ==
    [ instagram_username |-> None,
      instagram_password |-> None,
      source_accounts |-> <<>>,
      auto_repost |-> FALSE,
      repost_interval |-> 1,
      use_original_caption |-> TRUE,
      custom_caption |-> "",
      proxy |-> None,
      last_repost_time |-> None,
      supported_content |-> [reels |-> TRUE, photos |-> TRUE, carousels |-> TRUE],
      awaiting_source |-> FALSE,
      awaiting_account |-> FALSE ]

NoFile == [exists |-> FALSE, data |-> <<>>]

\* json.dump(user_settings, file)
Saved(m) == [exists |-> TRUE, data |-> m]

\* the module-level load: json.load(file) if the file exists, else {}
Loaded(f) == IF f.exists THEN f.data ELSE <<>>

-----------------------------------------------------------------------------
(* Chat front end (main.py).  Every handler runs to completion in the bot's  *)
(* event loop; each begins with get_user_settings(user_id).                 *)

\* the handles a remove_source button can carry
Handles == { strip(t) : t \in Texts }

ContentNames == {"reels", "photos", "carousels", "stories"}

Intervals == 1..4

\* get_user_settings: the mapping after the call (a missing record is created)
get_user_settings(m, u) == IF Has(m, u) THEN m ELSE Put(m, u, DefaultSettings)

\* every handler: one invocation, in the bot process
ChatTurn ==
    /\ chat_ops > 0
    /\ chat_ops' = chat_ops - 1
    /\ UNCHANGED jobVars

\* reply_text / edit_message_text
Reply(msg) == [msg |-> msg, shown |-> <<>>]

\* The file a handler for user u leaves, m2 being the mapping it leaves: saved tells
\* whether it called save_settings() after its last mutation; get_user_settings
\* saves a record it creates.
FileAfter(u, m2, saved) ==
    IF saved THEN Saved(m2)
    ELSE IF ~Has(main_settings, u) THEN Saved(get_user_settings(main_settings, u))
    ELSE file

\* variant: the prompt state is left also when the text is rejected
TextAsCredentials_Leave(settings, text) ==
    IF HasColon(text)
    THEN [settings EXCEPT
            !.instagram_username = Some(strip(SplitColon(text)[1])),
            !.instagram_password = Some(strip(SplitColon(text)[2])),
            !.awaiting_account = FALSE]
    ELSE [settings EXCEPT !.awaiting_account = FALSE]

\* handle_text, awaiting_account branch
TextAsCredentials(settings, text) ==
    IF HasColon(text)
    THEN [settings EXCEPT
            !.instagram_username = Some(strip(SplitColon(text)[1])),
            !.instagram_password = Some(strip(SplitColon(text)[2])),
            !.awaiting_account = FALSE]
    ELSE settings

\* variant: the membership test is missing
TextAsSource_Unchecked(settings, text) ==
    [settings EXCEPT
        !.source_accounts = Append(@, strip(text)),
        !.awaiting_source = FALSE]

\* handle_text, awaiting_source branch
TextAsSource(settings, text) ==
    LET source_username == strip(text)
    IN  [settings EXCEPT
            !.source_accounts =
                IF ~InList(source_username, @) THEN Append(@, source_username) ELSE @,
            !.awaiting_source = FALSE]

start(u) ==
    /\ ChatTurn
    /\ main_settings' = get_user_settings(main_settings, u)
    /\ file' = FileAfter(u, main_settings', FALSE)
    /\ reply' = Reply("Welcome to the Instagram Reposting Bot!")

handle_text(u, raw) ==
    LET m1 == get_user_settings(main_settings, u)
        settings == Get(m1, u)
        text == strip(raw)
    IN  /\ ChatTurn
        /\ main_settings' =
             IF settings.awaiting_account
             THEN Put(m1, u, TextAsCredentials(settings, text))
             ELSE IF settings.awaiting_source
             THEN Put(m1, u, TextAsSource(settings, text))
             ELSE m1
        /\ file' = FileAfter(u, main_settings',
                     IF settings.awaiting_account THEN HasColon(text)
                     ELSE settings.awaiting_source)
        /\ reply' = IF settings.awaiting_account
                    THEN IF HasColon(text)
                         THEN Reply("Instagram destination account set successfully!")
                         ELSE Reply("Invalid format. Use username:password")
                    ELSE IF settings.awaiting_source
                    THEN IF InList(text, settings.source_accounts)
                         THEN Reply("This source account already exists.")
                         ELSE Reply("Source account added successfully!")
                    ELSE Reply("Command not recognized.")

add_account(u) ==
    LET m1 == get_user_settings(main_settings, u)
    IN  /\ ChatTurn
        /\ main_settings' = Put(m1, u, [Get(m1, u) EXCEPT !.awaiting_account = TRUE])
        /\ file' = FileAfter(u, main_settings', TRUE)
        /\ reply' = Reply("Please send your Instagram destination account credentials")

manage_sources(u) ==
    /\ ChatTurn
    /\ main_settings' = get_user_settings(main_settings, u)
    /\ file' = FileAfter(u, main_settings', FALSE)
    /\ reply' = Reply("Manage your Instagram source accounts:")

add_source(u) ==
    LET m1 == get_user_settings(main_settings, u)
    IN  /\ ChatTurn
        /\ main_settings' = Put(m1, u, [Get(m1, u) EXCEPT !.awaiting_source = TRUE])
        /\ file' = FileAfter(u, main_settings', TRUE)
        /\ reply' = Reply("Please send the Instagram username of the source account to add:")

remove_source(u, source_to_remove) ==
    LET m1 == get_user_settings(main_settings, u)
        settings == Get(m1, u)
        found == InList(source_to_remove, settings.source_accounts)
    IN  /\ ChatTurn
        /\ main_settings' =
             IF found
             THEN Put(m1, u, [settings EXCEPT
                     !.source_accounts = ListRemove(@, source_to_remove)])
             ELSE m1
        /\ file' = FileAfter(u, main_settings', found)
        /\ reply' = IF found THEN Reply("Removed source account") ELSE Reply("Source account not found.")

reposting_settings(u) ==
    /\ ChatTurn
    /\ main_settings' = get_user_settings(main_settings, u)
    /\ file' = FileAfter(u, main_settings', FALSE)
    /\ reply' = Reply("Adjust your reposting settings:")

toggle_auto_repost(u) ==
    LET m1 == get_user_settings(main_settings, u)
    IN  /\ ChatTurn
        /\ main_settings' = Put(m1, u, [Get(m1, u) EXCEPT !.auto_repost = ~@])
        /\ file' = FileAfter(u, main_settings', TRUE)
        /\ reply' = Reply("Adjust your reposting settings:")

toggle_caption(u) ==
    LET m1 == get_user_settings(main_settings, u)
    IN  /\ ChatTurn
        /\ main_settings' = Put(m1, u, [Get(m1, u) EXCEPT !.use_original_caption = ~@])
        /\ file' = FileAfter(u, main_settings', TRUE)
        /\ reply' = Reply("Adjust your reposting settings:")

set_interval(u, interval) ==
    LET m1 == get_user_settings(main_settings, u)
    IN  /\ ChatTurn
        /\ main_settings' = Put(m1, u, [Get(m1, u) EXCEPT !.repost_interval = interval])
        /\ file' = FileAfter(u, main_settings', TRUE)
        /\ reply' = Reply("Adjust your reposting settings:")

content_types_settings(u) ==
    /\ ChatTurn
    /\ main_settings' = get_user_settings(main_settings, u)
    /\ file' = FileAfter(u, main_settings', FALSE)
    /\ reply' = Reply("Select which content types to repost:")

\* variant: the old value is read with a default, so an unknown name is written
toggle_content_Default(u, content_type) ==
    LET m1 == get_user_settings(main_settings, u)
        settings == Get(m1, u)
        content == settings.supported_content
        old == IF content_type \in DOMAIN content THEN content[content_type] ELSE FALSE
    IN  /\ ChatTurn
        /\ main_settings' =
             Put(m1, u, [settings EXCEPT !.supported_content =
                 [k \in DOMAIN content \cup {content_type} |->
                     IF k = content_type THEN ~old ELSE content[k]]])
        /\ file' = FileAfter(u, main_settings', TRUE)
        /\ reply' = Reply("Select which content types to repost:")

\* an unknown content type raises KeyError on the read, before any write
toggle_content(u, content_type) ==
    LET m1 == get_user_settings(main_settings, u)
        settings == Get(m1, u)
        known == content_type \in DOMAIN settings.supported_content
    IN  /\ ChatTurn
        /\ main_settings' =
             IF known
             THEN Put(m1, u, [settings EXCEPT !.supported_content[content_type] = ~@])
             ELSE m1
        /\ file' = FileAfter(u, main_settings', known)
        /\ reply' = IF known THEN Reply("Select which content types to repost:")
                     ELSE Reply("KeyError")

view_logs(u) ==
    /\ ChatTurn
    /\ main_settings' = get_user_settings(main_settings, u)
    /\ file' = FileAfter(u, main_settings', FALSE)
    /\ reply' = [msg |-> "Logs: Last repost: ",
                 shown |-> Get(main_settings', u).last_repost_time]

set_interval_menu(u) ==
    /\ ChatTurn
    /\ main_settings' = get_user_settings(main_settings, u)
    /\ file' = FileAfter(u, main_settings', FALSE)
    /\ reply' = Reply("Select your desired repost interval:")

ChatFor(u) ==
        \/ start(u)
        \/ \E raw \in Texts : handle_text(u, raw)
        \/ add_account(u)
        \/ manage_sources(u)
        \/ add_source(u)
        \/ \E h \in Handles : remove_source(u, h)
        \/ reposting_settings(u)
        \/ toggle_auto_repost(u)
        \/ toggle_caption(u)
        \/ \E n \in Intervals : set_interval(u, n)
        \/ content_types_settings(u)
        \/ \E c \in ContentNames : toggle_content(u, c)
        \/ view_logs(u)
        \/ set_interval_menu(u)

ChatNext == \E u \in UserIds : ChatFor(u)

\* the whole system is explored with one chat user
SysChatNext == \E u \in SysUserIds : ChatFor(u)

-----------------------------------------------------------------------------
(* Platform Client (instagrapi), as the repost job sees it *)

MediaItem(pk, media_type, caption_text) ==
    [pk |-> pk, media_type |-> media_type, caption_text |-> caption_text]

\* what each source account has posted, most recent first
PlatformFeed(source) ==
    IF source = Alice
    THEN << MediaItem(11, PhotoType, "sunset"), MediaItem(12, PhotoType, ""),
            MediaItem(13, VideoType, "clip"), MediaItem(14, VideoType, "promo"),
            MediaItem(15, CarouselType, "album"), MediaItem(16, PhotoType, "old") >>
    ELSE IF source = Bob
    THEN << MediaItem(21, 3, "other"), MediaItem(22, CarouselType, "trip") >>
    ELSE <<>>

\* user_medias_gql(source, amount): the amount most recent items
user_medias_gql(source, amount) ==
    SubSeq(PlatformFeed(source), 1, Min(amount, Len(PlatformFeed(source))))

\* one Platform Client call: who, what, on which source, how many items asked for
\* (a fetch) or which item (a download, an upload), with which caption, when, and
\* whether it returned (ok) or raised
Call(user, op, source, amount, pk, caption, at, ok) ==
    [user |-> user, op |-> op, source |-> source, amount |-> amount, pk |-> pk,
     caption |-> caption, at |-> at, ok |-> ok]

-----------------------------------------------------------------------------
(* Repost job (repost.py) and scheduler loop (scheduler.py) *)

\* variant: the auto_repost test is missing
Eligible_Always(settings) == TRUE

\* repost_interval is a number of hours (main.py line 57)
SecondsPerHour == 3600

\* variant: a user is processed only when repost_interval has passed since
\* last_repost_time
Eligible_Interval(settings) ==
    /\ settings.auto_repost
    /\ IF settings.last_repost_time = None THEN TRUE
       ELSE now - Head(settings.last_repost_time) >= settings.repost_interval * SecondsPerHour

\* repost.py line 56: a user is processed when auto_repost is set
Eligible(settings) == settings.auto_repost

\* variant: the reels and carousels switches are read for the wrong class
Disabled_Swapped(supported_content, media_type) ==
    \/ media_type = PhotoType /\ ~supported_content.photos
    \/ media_type = VideoType /\ ~supported_content.carousels
    \/ media_type = CarouselType /\ ~supported_content.reels

\* repost.py lines 72-77: the item's class is switched off
Disabled(supported_content, media_type) ==
    \/ media_type = PhotoType /\ ~supported_content.photos
    \/ media_type = VideoType /\ ~supported_content.reels
    \/ media_type = CarouselType /\ ~supported_content.carousels

\* variant: the caption mode is not consulted
CaptionFor_Original(settings, media) == media.caption_text

\* repost.py line 80
CaptionFor(settings, media) ==
    IF settings.use_original_caption THEN media.caption_text
    ELSE settings.custom_caption

\* variant: only photos take the photo branch (media_type in [1])
RepostCalls_NoCarousel(user, source, media, caption, at, outcome) ==
    LET kind == IF media.media_type = PhotoType THEN "photo"
                ELSE IF media.media_type = VideoType THEN "video"
                ELSE "none"
        download == Call(user, kind \o "_download", source, 0, media.pk, "", at,
                         outcome # "download_failed")
        upload == Call(user, kind \o "_upload", source, 0, media.pk, caption, at,
                       outcome # "upload_failed")
    IN  IF kind = "none" THEN <<>>
        ELSE IF outcome = "download_failed" THEN <<download>>
        ELSE <<download, upload>>

\* repost.py lines 86-93: the download and upload calls for one item; outcome tells
\* which call, if any, raises
RepostCalls(user, source, media, caption, at, outcome) ==
    LET kind == IF media.media_type \in {PhotoType, CarouselType} THEN "photo"
                ELSE IF media.media_type = VideoType THEN "video"
                ELSE "none"
        download == Call(user, kind \o "_download", source, 0, media.pk, "", at,
                         outcome # "download_failed")
        upload == Call(user, kind \o "_upload", source, 0, media.pk, caption, at,
                       outcome # "upload_failed")
    IN  IF kind = "none" THEN <<>>
        ELSE IF outcome = "download_failed" THEN <<download>>
        ELSE <<download, upload>>

Outcomes(media) ==
    IF media.media_type \in {PhotoType, VideoType, CarouselType}
    THEN {"ok", "download_failed", "upload_failed"}
    ELSE {"ok"}

\* the scheduler process starts: repost.py is imported (the settings file is read),
\* then run_scheduler registers the job
StartScheduler ==
    /\ pc = "down"
    /\ repost_settings' = Loaded(file)
    /\ next_run' = now + EverySeconds
    /\ pc' = "run_pending"
    /\ UNCHANGED <<file, now, sweep_rest, cur_user, src_rest, cur_source, media_rest,
                   calls, pass_settings, pass_file, failures, chatVars,
                   in_flight, posted>>

\* the uploads of the current pass that went through
Uploaded ==
    { <<calls[k].user, calls[k].pk>> :
        k \in { n \in 1..Len(calls) : calls[n].op \in {"photo_upload", "video_upload"} /\ calls[n].ok } }

\* variant: the job is started from a timer, whatever the loop is doing
StartPass_Timer ==
    /\ pc \in {"run_pending", "sweep", "sources", "media"}
    /\ now >= next_run
    /\ pc' = "sweep"
    /\ sweep_rest' = Keys(repost_settings)
    /\ calls' = <<>>
    /\ failures' = 0
    /\ pass_settings' = repost_settings
    /\ pass_file' = file
    /\ in_flight' = in_flight + 1
    /\ posted' = posted \cup Uploaded
    /\ UNCHANGED <<file, repost_settings, now, next_run, cur_user, src_rest,
                   cur_source, media_rest, chatVars>>

\* schedule.run_pending(), job due: check_and_repost is called; run_pending returns
\* when the job has returned
StartPass ==
    /\ pc = "run_pending"
    /\ now >= next_run
    /\ pc' = "sweep"
    /\ sweep_rest' = Keys(repost_settings)
    /\ calls' = <<>>
    /\ failures' = 0
    /\ pass_settings' = repost_settings
    /\ pass_file' = file
    /\ in_flight' = in_flight + 1
    /\ posted' = posted \cup Uploaded
    /\ UNCHANGED <<file, repost_settings, now, next_run, cur_user, src_rest,
                   cur_source, media_rest, chatVars>>

\* schedule.run_pending(), job not due
NotDue ==
    /\ pc = "run_pending"
    /\ now < next_run
    /\ pc' = "sleep"
    /\ UNCHANGED <<file, repost_settings, now, next_run, sweep_rest, cur_user,
                   src_rest, cur_source, media_rest, calls, pass_settings, pass_file,
                   failures, chatVars,
                   in_flight, posted>>

\* time.sleep(10)
Sleep ==
    /\ pc = "sleep"
    /\ now + SleepSeconds <= MaxTime
    /\ now' = now + SleepSeconds
    /\ pc' = "run_pending"
    /\ UNCHANGED <<file, repost_settings, next_run, sweep_rest, cur_user, src_rest,
                   cur_source, media_rest, calls, pass_settings, pass_file, failures,
                   chatVars,
                   in_flight, posted>>

\* outer loop, lines 56-57: auto repost is off
SkipUser ==
    /\ pc = "sweep"
    /\ sweep_rest # <<>>
    /\ ~Eligible(Get(repost_settings, Head(sweep_rest)))
    /\ sweep_rest' = Tail(sweep_rest)
    /\ UNCHANGED <<file, repost_settings, pc, now, next_run, cur_user, src_rest,
                   cur_source, media_rest, calls, pass_settings, pass_file, failures,
                   chatVars,
                   in_flight, posted>>

\* variant: the record is not stamped
Stamp_Missing(settings, t) == settings

\* variant: a failed login ends the sweep (break)
NextUser_Break(rest) == <<>>

\* lines 62-64: after a failed login, continue with the users left
NextUser(rest) == rest

\* line 43: client.login returns or raises at once, or only after a long wait
\* (no timeout is set on the call)
LoginSeconds == {0, SlowCallSeconds}

\* line 60: settings["last_repost_time"] = now, formatted
Stamp(settings, t) == [settings EXCEPT !.last_repost_time = Timestamp(t)]

\* outer loop, lines 59-64: stamp the record, log in
LoginUser ==
    /\ pc = "sweep"
    /\ sweep_rest # <<>>
    /\ LET user_id == Head(sweep_rest)
           settings == Get(repost_settings, user_id)
       IN  /\ Eligible(settings)
           /\ repost_settings' = Put(repost_settings, user_id, Stamp(settings, now))
           /\ \E seconds \in LoginSeconds :
                /\ now + seconds <= MaxTime
                /\ now' = now + seconds
           /\ \E ok \in BOOLEAN :
                /\ sweep_rest' = IF ok THEN Tail(sweep_rest)
                                 ELSE NextUser(Tail(sweep_rest))
                /\ ~ok => failures < MaxFailures
                /\ failures' = IF ok THEN failures ELSE failures + 1
                /\ calls' = Append(calls, Call(user_id, "login", <<>>, 0, 0, "", now, ok))
                /\ IF ok
                   THEN /\ pc' = "sources"
                        /\ cur_user' = user_id
                        /\ src_rest' = settings.source_accounts
                   ELSE UNCHANGED <<pc, cur_user, src_rest>>
    /\ UNCHANGED <<file, next_run, cur_source, media_rest, pass_settings,
                   pass_file, chatVars,
                   in_flight, posted>>

\* variant: the try statement encloses the source loop
Caught_Outside(rest) == <<>>

\* lines 94-95: the except clause sits inside the source loop, so after a failure
\* the loop goes on with the sources left
Caught(rest) == rest

\* variant: a source whose fetch failed is fetched again
FetchSource_Retry ==
    /\ pc = "sources"
    /\ src_rest # <<>>
    /\ LET source == Head(src_rest)
       IN  /\ \E ok \in BOOLEAN :
                /\ src_rest' = IF ok THEN Tail(src_rest) ELSE src_rest
                /\ ~ok => failures < MaxFailures
                /\ failures' = IF ok THEN failures ELSE failures + 1
                /\ calls' = Append(calls,
                      Call(cur_user, "user_medias_gql", source, MediaCount, 0, "", now, ok))
                /\ IF ok
                   THEN /\ pc' = "media"
                        /\ cur_source' = source
                        /\ media_rest' = user_medias_gql(source, MediaCount)
                   ELSE UNCHANGED <<pc, cur_source, media_rest>>
    /\ UNCHANGED <<file, repost_settings, now, next_run, sweep_rest, cur_user,
                   pass_settings, pass_file, chatVars,
                   in_flight, posted>>

\* source loop, line 69: fetch the recent media of the next source
FetchSource ==
    /\ pc = "sources"
    /\ src_rest # <<>>
    /\ LET source == Head(src_rest)
       IN  /\ \E ok \in BOOLEAN :
                /\ src_rest' = IF ok THEN Tail(src_rest) ELSE Caught(Tail(src_rest))
                /\ ~ok => failures < MaxFailures
                /\ failures' = IF ok THEN failures ELSE failures + 1
                /\ calls' = Append(calls,
                      Call(cur_user, "user_medias_gql", source, MediaCount, 0, "", now, ok))
                /\ IF ok
                   THEN /\ pc' = "media"
                        /\ cur_source' = source
                        /\ media_rest' = user_medias_gql(source, MediaCount)
                   ELSE UNCHANGED <<pc, cur_source, media_rest>>
    /\ UNCHANGED <<file, repost_settings, now, next_run, sweep_rest, cur_user,
                   pass_settings, pass_file, chatVars,
                   in_flight, posted>>

\* variant: the try statement sits inside the media loop, around one item
Raised_PerItem(rest) == Tail(rest)

\* lines 67-95: the try statement encloses the whole media loop, so an exception
\* raised for one item leaves the loop; nothing is left of it to visit
Raised(rest) == <<>>

\* media loop, lines 70-93: one item.  A failing download or upload raises.
ProcessMedia ==
    /\ pc = "media"
    /\ media_rest # <<>>
    /\ LET media == Head(media_rest)
           settings == Get(repost_settings, cur_user)
       IN  IF Disabled(settings.supported_content, media.media_type)
           THEN /\ media_rest' = Tail(media_rest)
                /\ UNCHANGED <<pc, now, calls, failures>>
           ELSE /\ now + DelaySeconds <= MaxTime
                /\ now' = now + DelaySeconds
                /\ \E outcome \in Outcomes(media) :
                     /\ outcome # "ok" => failures < MaxFailures
                     /\ failures' = IF outcome = "ok" THEN failures ELSE failures + 1
                     /\ calls' = calls \o RepostCalls(cur_user, cur_source, media,
                                            CaptionFor(settings, media), now', outcome)
                     /\ media_rest' = IF outcome = "ok" THEN Tail(media_rest)
                                      ELSE Raised(media_rest)
                     /\ pc' = pc
    /\ UNCHANGED <<file, repost_settings, next_run, sweep_rest, cur_user, src_rest,
                   cur_source, pass_settings, pass_file, chatVars,
                   in_flight, posted>>

\* media loop left, by exhaustion or by an exception that the except clause
\* (lines 94-95) has caught and logged: on to the next source
EndSource ==
    /\ pc = "media"
    /\ media_rest = <<>>
    /\ pc' = "sources"
    /\ UNCHANGED <<file, repost_settings, now, next_run, sweep_rest, cur_user,
                   src_rest, cur_source, media_rest, calls, pass_settings, pass_file,
                   failures, chatVars,
                   in_flight, posted>>

\* source loop exhausted, line 96: save_settings()
EndUser ==
    /\ pc = "sources"
    /\ src_rest = <<>>
    /\ file' = Saved(repost_settings)
    /\ pc' = "sweep"
    /\ UNCHANGED <<repost_settings, now, next_run, sweep_rest, cur_user, src_rest,
                   cur_source, media_rest, calls, pass_settings, pass_file, failures,
                   chatVars,
                   in_flight, posted>>

\* outer loop exhausted: check_and_repost returns, schedule sets the next run
EndPass ==
    /\ pc = "sweep"
    /\ sweep_rest = <<>>
    /\ next_run' = now + EverySeconds
    /\ pc' = "sleep"
    /\ in_flight' = in_flight - 1
    /\ UNCHANGED <<file, repost_settings, now, sweep_rest, cur_user, src_rest,
                   cur_source, media_rest, calls, pass_settings, pass_file, failures,
                   posted, chatVars>>

JobNext ==
    \/ StartPass
    \/ NotDue
    \/ Sleep
    \/ SkipUser
    \/ LoginUser
    \/ FetchSource
    \/ ProcessMedia
    \/ EndSource
    \/ EndUser
    \/ EndPass

-----------------------------------------------------------------------------
(* Initial state: no settings file yet, the bot has imported main.py, the   *)
(* scheduler process has not been started.                                  *)

JobIdle ==
    /\ sweep_rest = <<>>
    /\ cur_user = ""
    /\ src_rest = <<>>
    /\ cur_source = <<>>
    /\ media_rest = <<>>
    /\ calls = <<>>
    /\ pass_settings = <<>>
    /\ pass_file = NoFile
    /\ failures = 0
    /\ in_flight = 0
    /\ posted = {}

InitChat ==
    /\ file = NoFile
    /\ main_settings = Loaded(NoFile)
    /\ repost_settings = <<>>
    /\ pc = "down"
    /\ now = 0
    /\ next_run = 0
    /\ JobIdle
    /\ chat_ops = MaxChatOps
    /\ reply = Reply("")

SpecChat == InitChat /\ [][ChatNext]_vars

(* The scheduler process alone, started on a settings file that holds two     *)
(* configured users.                                                         *)

Configured(auto, interval, sources, content, original, custom) ==
    [DefaultSettings EXCEPT
        !.instagram_username = Some(<<"dest">>),
        !.instagram_password = Some(<<"pw">>),
        !.auto_repost = auto,
        !.repost_interval = interval,
        !.source_accounts = sources,
        !.supported_content = content,
        !.use_original_caption = original,
        !.custom_caption = custom]

ContentChoices == [reels : BOOLEAN, photos : BOOLEAN, carousels : BOOLEAN]

FirstUserSettings ==
    { Configured(auto, interval, sources, content, original, custom) :
        auto \in BOOLEAN, interval \in {1, 4}, sources \in {<<Alice, Bob>>, <<Bob>>},
        content \in ContentChoices, original \in BOOLEAN, custom \in {"promo"} }

SecondUserSettings ==
    { Configured(auto, 2, <<Bob>>, content, TRUE, "") :
        auto \in BOOLEAN,
        content \in { [reels |-> TRUE, photos |-> TRUE, carousels |-> b] :
                        b \in BOOLEAN } }

InitJob ==
    /\ \E s1 \in FirstUserSettings, s2 \in SecondUserSettings :
         file = Saved(<< [id |-> "u1", settings |-> s1],
                         [id |-> "u2", settings |-> s2] >>)
    /\ main_settings = <<>>
    /\ repost_settings = Loaded(file)
    /\ pc = "run_pending"
    /\ now = 0
    /\ next_run = EverySeconds
    /\ JobIdle
    /\ chat_ops = 0
    /\ reply = Reply("")

SpecJob == InitJob /\ [][JobNext]_vars

(* The whole system *)

(* The bot starts either with no settings file or with the file an earlier   *)
(* run of the bot has left: one user who has set credentials and a source.  *)

EarlierSettings ==
    [DefaultSettings EXCEPT
        !.instagram_username = Some(<<"alice">>),
        !.instagram_password = Some(<<"pw">>),
        !.source_accounts = <<Bob>>]

Init ==
    /\ file \in {NoFile, Saved(<< [id |-> "u1", settings |-> EarlierSettings] >>)}
    /\ main_settings = Loaded(file)
    /\ repost_settings = <<>>
    /\ pc = "down"
    /\ now = 0
    /\ next_run = 0
    /\ JobIdle
    /\ chat_ops = MaxSysChatOps
    /\ reply = Reply("")

Next == SysChatNext \/ StartScheduler \/ JobNext

Spec == Init /\ [][Next]_vars

-----------------------------------------------------------------------------
(* Properties.  They are stated over the Platform Client calls of the       *)
(* current pass (calls) and the settings the pass started from              *)
(* (pass_settings, pass_file).                                              *)

CallIdx == 1..Len(calls)

PassUsers == { pass_settings[i].id : i \in 1..Len(pass_settings) }

DownloadOps == {"photo_download", "video_download"}
UploadOps == {"photo_upload", "video_upload"}

\* a pass has run and has returned to the scheduler loop
PassReturned == pc \in {"sleep", "run_pending"} /\ pass_settings # <<>>

\* the outer loop has finished with user u in the current pass
UserDone(u) ==
    /\ u \in PassUsers
    /\ ~InList(u, sweep_rest)
    /\ ~(pc \in {"sources", "media"} /\ cur_user = u)

\* the media loop over source src of user u is over
SourceDone(u, src) == ~(pc = "media" /\ cur_user = u /\ cur_source = src)

\* the items a fetch of src returns: the five most recent
Recent(src) == SubSeq(PlatformFeed(src), 1, Min(5, Len(PlatformFeed(src))))

ItemOf(src, pk) ==
    CHOOSE m \in { PlatformFeed(src)[n] : n \in 1..Len(PlatformFeed(src)) } : m.pk = pk

\* the supported_content key of a media type code: 1 photos, 2 reels, 8 carousels
ClassKey(media_type) ==
    IF media_type = 1 THEN "photos"
    ELSE IF media_type = 2 THEN "reels"
    ELSE IF media_type = 8 THEN "carousels"
    ELSE "none"

ClassOff(content, media_type) ==
    ClassKey(media_type) # "none" /\ ~content[ClassKey(media_type)]

ClassOn(content, media_type) ==
    ClassKey(media_type) # "none" /\ content[ClassKey(media_type)]

Position(x, seq) == CHOOSE n \in 1..Len(seq) : seq[n] = x

\* every source listed after the source of call k has been fetched after call k,
\* and, when that fetch returned, its first item of a switched-on class has been
\* given a download call
LaterSourcesProcessed(k) ==
    LET u == calls[k].user
        settings == Get(pass_settings, u)
        srcs == settings.source_accounts
    IN  \A n \in (Position(calls[k].source, srcs) + 1)..Len(srcs) :
          \E k2 \in CallIdx :
            /\ k2 > k
            /\ calls[k2].user = u
            /\ calls[k2].op = "user_medias_gql"
            /\ calls[k2].source = srcs[n]
            /\ calls[k2].ok =>
                 \A m \in 1..Len(Recent(srcs[n])) :
                   ( /\ ClassOn(settings.supported_content, Recent(srcs[n])[m].media_type)
                     /\ \A m0 \in 1..(m - 1) :
                          ~ClassOn(settings.supported_content,
                                   Recent(srcs[n])[m0].media_type) )
                   => \E k3 \in CallIdx :
                        /\ k3 > k2
                        /\ calls[k3].user = u
                        /\ calls[k3].op \in DownloadOps
                        /\ calls[k3].pk = Recent(srcs[n])[m].pk

\* every user with auto_repost set is either still to be visited or has been
\* stamped and has had a login attempted
EligibleUsersProcessed ==
    \A i \in 1..Len(pass_settings) :
        pass_settings[i].settings.auto_repost =>
            \/ InList(pass_settings[i].id, sweep_rest)
            \/ \E k \in CallIdx :
                 /\ calls[k].user = pass_settings[i].id
                 /\ calls[k].op = "login"
                 /\ Get(repost_settings, pass_settings[i].id).last_repost_time
                      = Timestamp(calls[k].at)

\* C1: a user whose auto_repost is false when a pass begins gets no Platform
\* Client call in that pass, and the user's record, in memory and in the file,
\* stays as it was.
C1_DisabledUserUntouched ==
    \A i \in 1..Len(pass_settings) :
        ~pass_settings[i].settings.auto_repost =>
            /\ \A k \in CallIdx : calls[k].user # pass_settings[i].id
            /\ Get(repost_settings, pass_settings[i].id) = pass_settings[i].settings
            /\ Get(file.data, pass_settings[i].id) = pass_settings[i].settings

\* a pass has returned that passed over the first user and reposted for the second
C1_Witness ==
    /\ PassReturned
    /\ ~pass_settings[1].settings.auto_repost
    /\ \E k \in CallIdx :
         calls[k].user = pass_settings[2].id /\ calls[k].op \in UploadOps /\ calls[k].ok

\* C2: for every item a fetch returned whose class is switched off in the user's
\* supported_content, the pass makes no download and no upload call.
C2_DisabledClassNotReposted ==
    \A k \in CallIdx :
        (calls[k].op = "user_medias_gql" /\ calls[k].ok) =>
            \A n \in 1..Len(Recent(calls[k].source)) :
                ClassOff(Get(pass_settings, calls[k].user).supported_content,
                         Recent(calls[k].source)[n].media_type)
                => \A k2 \in CallIdx :
                     ~( /\ calls[k2].user = calls[k].user
                        /\ calls[k2].op \in DownloadOps \cup UploadOps
                        /\ calls[k2].pk = Recent(calls[k].source)[n].pk )

\* reels are off for the first user, whose pass went by the two videos of alice and
\* reposted the carousel behind them
C2_Witness ==
    /\ PassReturned
    /\ ~pass_settings[1].settings.supported_content.reels
    /\ \E k \in CallIdx :
         /\ calls[k].user = pass_settings[1].id
         /\ calls[k].op = "photo_upload"
         /\ calls[k].pk = 15
         /\ calls[k].ok

\* C3: once a user's processing is over, a failed fetch of one source has been
\* followed by the fetch and the processing of every source listed after it.
C3_FetchFailureIsolated ==
    \A k \in CallIdx :
        (calls[k].op = "user_medias_gql" /\ ~calls[k].ok /\ UserDone(calls[k].user))
            => LaterSourcesProcessed(k)

\* the fetch of alice failed, bob, listed after it, was fetched and its carousel
\* downloaded
C3_Witness ==
    \E k, k2, k3 \in CallIdx :
        /\ k < k2 /\ k2 < k3
        /\ UserDone(calls[k].user)
        /\ calls[k].op = "user_medias_gql" /\ calls[k].source = Alice /\ ~calls[k].ok
        /\ calls[k2].user = calls[k].user
        /\ calls[k2].op = "user_medias_gql" /\ calls[k2].source = Bob /\ calls[k2].ok
        /\ calls[k3].user = calls[k].user
        /\ calls[k3].op = "photo_download" /\ calls[k3].pk = 22

\* C4: a failed login of user U is the only Platform Client call of the pass for U
\* (no listing, download or upload, no second login), and U's record is the one
\* the pass began with, last_repost_time excepted, which holds the time at which
\* the processing of U started.
C4_LoginFailureSkipsUser ==
    \A k \in CallIdx :
        (calls[k].op = "login" /\ ~calls[k].ok) =>
            /\ \A k2 \in CallIdx : k2 # k => calls[k2].user # calls[k].user
            /\ Get(repost_settings, calls[k].user)
                 = [Get(pass_settings, calls[k].user)
                      EXCEPT !.last_repost_time = Timestamp(calls[k].at)]

\* the login of the first user failed and the clock has moved on since
C4_Witness ==
    /\ PassReturned
    /\ \E k \in CallIdx :
         /\ calls[k].user = pass_settings[1].id
         /\ calls[k].op = "login"
         /\ ~calls[k].ok
         /\ now > calls[k].at

\* C5: no Platform Client failure ends the sweep: at every point of a pass each
\* user with auto_repost set is still to be visited or has been processed
\* (stamped, login attempted), so that when the pass has returned all of them
\* have been.
C5_FailuresDoNotAbortSweep ==
    /\ EligibleUsersProcessed
    /\ PassReturned => sweep_rest = <<>>

\* the pass has returned after a failure with the first user, and the second user
\* was logged in after it
C5_Witness ==
    /\ PassReturned
    /\ \E k, k2 \in CallIdx :
         /\ k < k2
         /\ calls[k].user = pass_settings[1].id
         /\ ~calls[k].ok
         /\ calls[k2].user = pass_settings[2].id
         /\ calls[k2].op = "login"

\* a download or an upload that raised
FailedRepost(k) == calls[k].op \in DownloadOps \cup UploadOps /\ ~calls[k].ok

\* C6 as claimed: after a failed download or upload the remaining items of the
\* same source, the later sources and the later users are still processed.
C6_ItemFailureSkipsOnlyItem ==
    \A k \in CallIdx :
        FailedRepost(k) =>
            /\ SourceDone(calls[k].user, calls[k].source) =>
                 LET items == Recent(calls[k].source)
                     content == Get(pass_settings, calls[k].user).supported_content
                 IN  \A n \in 1..Len(items) :
                       ( /\ n > Position(ItemOf(calls[k].source, calls[k].pk), items)
                         /\ ClassOn(content, items[n].media_type) )
                       => \E k2 \in CallIdx :
                            /\ k2 > k
                            /\ calls[k2].user = calls[k].user
                            /\ calls[k2].op \in DownloadOps
                            /\ calls[k2].pk = items[n].pk
            /\ UserDone(calls[k].user) => LaterSourcesProcessed(k)
            /\ EligibleUsersProcessed

\* C6, amended: after a failed download or upload no further call is made for the
\* same source in the pass (the item and the remaining items of that source are
\* skipped); the later sources and the later users are still processed.
C6_ItemFailureSkipsRestOfSource ==
    \A k \in CallIdx :
        FailedRepost(k) =>
            /\ \A k2 \in CallIdx :
                 k2 > k => ~( /\ calls[k2].user = calls[k].user
                              /\ calls[k2].source = calls[k].source )
            /\ UserDone(calls[k].user) => LaterSourcesProcessed(k)
            /\ EligibleUsersProcessed

\* the download of the first item of alice failed for the first user; bob was
\* fetched for that user afterwards and the second user was logged in
C6_Witness ==
    /\ PassReturned
    /\ \E k, k2, k3 \in CallIdx :
         /\ k < k2 /\ k2 < k3
         /\ calls[k].user = pass_settings[1].id
         /\ calls[k].op = "photo_download" /\ calls[k].pk = 11 /\ ~calls[k].ok
         /\ calls[k2].user = pass_settings[1].id
         /\ calls[k2].op = "user_medias_gql" /\ calls[k2].source = Bob
         /\ calls[k3].user = pass_settings[2].id /\ calls[k3].op = "login"

\* the download and upload calls of user u for the item pk of source src
RepostCallsFor(u, src, pk) ==
    { k \in CallIdx : /\ calls[k].user = u
                      /\ calls[k].source = src
                      /\ calls[k].pk = pk
                      /\ calls[k].op \in DownloadOps \cup UploadOps }

\* C7: when no call has failed, a processed user has, for every source, as many
\* upload calls as fetched items of a switched-on class: a photo or carousel item
\* one photo download followed by one photo upload, a video item one video
\* download followed by one video upload, any other item no call; and the user's
\* last_repost_time is that of this pass.
C7_NoFailureRepostsEnabledItems ==
    \A i \in 1..Len(pass_settings) :
        LET u == pass_settings[i].id
            settings == pass_settings[i].settings
            content == settings.supported_content
        IN  (settings.auto_repost /\ UserDone(u) /\ failures = 0) =>
              /\ Get(repost_settings, u).last_repost_time # settings.last_repost_time
              /\ \E k \in CallIdx :
                   /\ calls[k].user = u /\ calls[k].op = "login"
                   /\ Get(repost_settings, u).last_repost_time = Timestamp(calls[k].at)
              /\ \A s \in 1..Len(settings.source_accounts) :
                   LET src == settings.source_accounts[s]
                       items == Recent(src)
                   IN  /\ Cardinality({ k \in CallIdx : /\ calls[k].user = u
                                                        /\ calls[k].source = src
                                                        /\ calls[k].op \in UploadOps })
                            = Cardinality({ n \in 1..Len(items) :
                                              ClassOn(content, items[n].media_type) })
                       /\ \A n \in 1..Len(items) :
                            IF ClassOn(content, items[n].media_type)
                            THEN \E k \in CallIdx :
                                   /\ RepostCallsFor(u, src, items[n].pk) = {k, k + 1}
                                   /\ calls[k].ok /\ calls[k + 1].ok
                                   /\ calls[k].op =
                                        IF items[n].media_type = 2 THEN "video_download"
                                        ELSE "photo_download"
                                   /\ calls[k + 1].op =
                                        IF items[n].media_type = 2 THEN "video_upload"
                                        ELSE "photo_upload"
                            ELSE RepostCallsFor(u, src, items[n].pk) = {}

\* alice's five recent items are two photos, two videos and a carousel; with reels
\* off a pass without failure has made three photo uploads and no video upload
C7_Witness ==
    /\ PassReturned
    /\ failures = 0
    /\ pass_settings[1].settings.auto_repost
    /\ pass_settings[1].settings.supported_content
         = [reels |-> FALSE, photos |-> TRUE, carousels |-> TRUE]
    /\ Cardinality({ k \in CallIdx : /\ calls[k].user = pass_settings[1].id
                                     /\ calls[k].source = Alice
                                     /\ calls[k].op = "photo_upload" }) = 3
    /\ \A k \in CallIdx :
         calls[k].user = pass_settings[1].id => calls[k].op # "video_upload"

\* C8: the caption of every upload is the item's own caption when the user's
\* use_original_caption is true, and the user's custom_caption otherwise.
C8_CaptionChoice ==
    \A k \in CallIdx :
        calls[k].op \in UploadOps =>
            calls[k].caption =
                IF Get(pass_settings, calls[k].user).use_original_caption
                THEN ItemOf(calls[k].source, calls[k].pk).caption_text
                ELSE Get(pass_settings, calls[k].user).custom_caption

\* the first user reposts with the custom caption "promo" an item whose own caption
\* is "sunset"; the second user reposts bob's carousel with its own caption
C8_Witness ==
    \E k, k2 \in CallIdx :
        /\ calls[k].user = pass_settings[1].id
        /\ calls[k].op = "photo_upload" /\ calls[k].pk = 11
        /\ calls[k].caption = "promo"
        /\ calls[k2].user = pass_settings[2].id
        /\ calls[k2].op = "photo_upload" /\ calls[k2].pk = 22
        /\ calls[k2].caption = "trip"

NoDuplicates(seq) == \A a, b \in 1..Len(seq) : a # b => seq[a] # seq[b]

\* C9: whatever the chat handlers have done, no user's source_accounts, in the
\* bot's memory or in the file, holds a handle twice.
C9_NoDuplicateSources ==
    /\ \A i \in 1..Len(main_settings) :
         NoDuplicates(main_settings[i].settings.source_accounts)
    /\ \A i \in 1..Len(file.data) :
         NoDuplicates(file.data[i].settings.source_accounts)

\* alice has just been sent a second time: the bot has answered that the source
\* exists and the list holds alice once
C9_Witness ==
    /\ reply.msg = "This source account already exists."
    /\ \E i \in 1..Len(main_settings) :
         main_settings[i].settings.source_accounts = <<Alice>>

\* C10 as claimed: a pass that begins after the chat front end has stored
\* auto_repost = true for a user logs in for that user.
C10_ChatChangeReachesJob ==
    (pc \in {"sleep", "run_pending"} /\ pass_file.exists) =>
        \A i \in 1..Len(pass_file.data) :
            pass_file.data[i].settings.auto_repost =>
                \E k \in CallIdx :
                    calls[k].user = pass_file.data[i].id /\ calls[k].op = "login"

\* the scheduler process is inside check_and_repost
InPass == pc \in {"sweep", "sources", "media"}

\* C11: at most one check_and_repost invocation is in flight, and one is in flight
\* exactly while the scheduler process is inside it: no pass starts before the
\* previous one has returned, however long that one takes.
C11_OnePassInFlight ==
    /\ in_flight \in {0, 1}
    /\ in_flight = 1 <=> InPass

\* a pass is still running more than one cadence after the time it was due
C11_Witness ==
    /\ InPass
    /\ in_flight = 1
    /\ now > next_run + EverySeconds

\* C12: once a pass has returned, the persisted mapping equals the scheduler
\* process's in-memory mapping: every last_repost_time the pass has set, also the
\* one of a user whose login failed, is in the file.
C12_PassMutationsPersisted == PassReturned => Loaded(file) = repost_settings

ContentKeys == {"reels", "photos", "carousels"}

\* every record of mapping m has exactly the three content keys, each a boolean
ContentShape(m) ==
    \A i \in 1..Len(m) :
        /\ DOMAIN m[i].settings.supported_content = ContentKeys
        /\ \A k \in ContentKeys : m[i].settings.supported_content[k] \in BOOLEAN

\* a step changes the supported_content of a record in at most one key, by negation
OneKeyFlipped ==
    \A u \in UserIds :
        (Has(main_settings, u) /\ Has(main_settings', u)) =>
            LET old == Get(main_settings, u).supported_content
                new == Get(main_settings', u).supported_content
            IN  \/ new = old
                \/ \E k \in ContentKeys : new = [old EXCEPT ![k] = ~@]

\* C13: after any chat operations, toggle_content with an arbitrary name among them,
\* supported_content has exactly the keys reels, photos and carousels, each a
\* boolean, in memory and in the file; a toggle negates one key and leaves the
\* other two as they were.
C13_ContentKeysFixed ==
    /\ [](ContentShape(main_settings) /\ ContentShape(Loaded(file)))
    /\ [][OneKeyFlipped]_vars

\* a known class has been switched off and a toggle with an unknown name has been
\* attempted last
C13_Witness ==
    /\ reply.msg = "KeyError"
    /\ \E u \in UserIds :
         /\ Has(main_settings, u)
         /\ ~Get(main_settings, u).supported_content["reels"]
         /\ Get(main_settings, u).supported_content["photos"]
         /\ Loaded(file) = main_settings

\* user u had a login attempted in the current pass
LoginAttempted(u) == \E k \in CallIdx : calls[k].user = u /\ calls[k].op = "login"

\* C14: repost_interval has no influence on the job: whatever repost_interval and
\* last_repost_time a user has when a pass begins, the pass processes the user
\* exactly when auto_repost is set, on every firing of the scheduler.
C14_IntervalNotEnforced ==
    \A i \in 1..Len(pass_settings) :
        UserDone(pass_settings[i].id) =>
            (LoginAttempted(pass_settings[i].id) <=> pass_settings[i].settings.auto_repost)

\* a user with a four-hour interval who was processed by the pass before is
\* processed again by the next pass, a minute or so later
C14_Witness ==
    \E i \in 1..Len(pass_settings) :
        LET old == pass_settings[i].settings
        IN  /\ old.repost_interval = 4
            /\ old.last_repost_time # None
            /\ UserDone(pass_settings[i].id)
            /\ \E k \in CallIdx :
                 /\ calls[k].user = pass_settings[i].id
                 /\ calls[k].op = "login"
                 /\ calls[k].at < old.last_repost_time[1] + old.repost_interval * SecondsPerHour

\* C15: check_and_repost reposts new media only: an item a user's destination
\* account got in an earlier pass is not uploaded again in a later pass (the feeds
\* of the sources do not change).
C15_NoRepeatedUpload ==
    \A k \in CallIdx :
        calls[k].op \in UploadOps => <<calls[k].user, calls[k].pk>> \notin posted

\* the fields of a record the chat front end writes: all but last_repost_time
ChatFields(settings) == [settings EXCEPT !.last_repost_time = None]

\* C16: no update is lost between the two writers of the file: what the chat front
\* end has persisted for a user is still in the file after the job saves, and a
\* last_repost_time the job has persisted is still in the file after a chat save.
C16_NoLostUpdate ==
    /\ \A i \in 1..Len(main_settings) :
         /\ Has(Loaded(file), main_settings[i].id)
         /\ ChatFields(Get(Loaded(file), main_settings[i].id))
              = ChatFields(main_settings[i].settings)
    /\ \A k \in CallIdx :
         (PassReturned /\ calls[k].op = "login" /\ calls[k].ok) =>
            /\ Has(Loaded(file), calls[k].user)
            /\ Get(Loaded(file), calls[k].user).last_repost_time
                 = Get(repost_settings, calls[k].user).last_repost_time

\* C17: view_logs shows the last_repost_time the job has most recently recorded for
\* the user: a view_logs that follows a pass which processed the user reports that
\* pass's timestamp.
C17_LogsShowLastPass ==
    [][\A u \in SysUserIds :
          ( /\ chat_ops' < chat_ops
            /\ reply'.msg = "Logs: Last repost: "
            /\ Has(repost_settings, u)
            /\ Get(repost_settings, u).last_repost_time # None )
          => reply'.shown = Get(repost_settings, u).last_repost_time]_vars

CredentialReplies ==
    {"Instagram destination account set successfully!", "Invalid format. Use username:password"}

SourceReplies == {"This source account already exists.", "Source account added successfully!"}

\* the step is a run of handle_text: only handle_text ends with one of these replies
TextHandled ==
    /\ chat_ops' < chat_ops
    /\ reply'.msg \in CredentialReplies \cup SourceReplies \cup {"Command not recognized."}

\* user u had a record before the step and it is changed by the step
RecordChanged(u) == Has(main_settings, u) /\ Get(main_settings', u) # Get(main_settings, u)

\* what a run of handle_text may do to the records that existed before it
TextEffect ==
    /\ \A u \in UserIds :
         Has(main_settings, u) =>
            LET old == Get(main_settings, u)
                new == Get(main_settings', u)
            IN  /\ (new.instagram_username # old.instagram_username
                      \/ new.instagram_password # old.instagram_password)
                     => old.awaiting_account
                /\ new.source_accounts # old.source_accounts
                     => (old.awaiting_source /\ ~old.awaiting_account)
                /\ (~old.awaiting_account /\ ~old.awaiting_source) => new = old
                /\ (old.awaiting_account /\ ~new.awaiting_account)
                     => reply'.msg = "Instagram destination account set successfully!"
    /\ reply'.msg \in SourceReplies =>
         \E u \in UserIds :
            /\ Has(main_settings, u)
            /\ Get(main_settings, u).awaiting_source
            /\ ~Get(main_settings, u).awaiting_account
            /\ ~Get(main_settings', u).awaiting_source
            /\ \A v \in UserIds \ {u} : ~RecordChanged(v)
    /\ reply'.msg = "Instagram destination account set successfully!" =>
         \E u \in UserIds :
            /\ Has(main_settings, u)
            /\ Get(main_settings, u).awaiting_account
            /\ ~Get(main_settings', u).awaiting_account
            /\ Get(main_settings', u).instagram_username # None
            /\ \A v \in UserIds \ {u} : ~RecordChanged(v)
    /\ reply'.msg = "Invalid format. Use username:password" => main_settings' = main_settings

\* C18: handle_text changes the credentials only under awaiting_account, the source
\* list only under awaiting_source without awaiting_account, and nothing of an
\* existing record when neither flag is set; a text handled as a source leaves
\* awaiting_source false; awaiting_account is cleared exactly when a text with ":"
\* was accepted as credentials.
C18_TextFollowsPromptState == [][TextHandled => TextEffect]_vars

\* credentials have been accepted: the record holds them and the prompt state is left
C18_Witness ==
    /\ reply.msg = "Instagram destination account set successfully!"
    /\ \E u \in UserIds :
         /\ Has(main_settings, u)
         /\ Get(main_settings, u).instagram_username = Some(<<"alice">>)
         /\ ~Get(main_settings, u).awaiting_account

\* the sources user u has had fetched in the current pass, in the order of the calls
FetchedSources(u) ==
    LET fetches == SelectSeq(calls, LAMBDA c : c.user = u /\ c.op = "user_medias_gql")
    IN  [n \in 1..Len(fetches) |-> fetches[n].source]

\* the logins attempted for user u in the current pass
Logins(u) == { k \in CallIdx : calls[k].user = u /\ calls[k].op = "login" }

IsSuffix(s, t) == \E n \in 0..Len(t) : s = SubSeq(t, n + 1, Len(t))

\* the pass visits the records in the order of the mapping, each once, and asks for
\* the media of each source of a logged-in user once, in list order, five at a time
VisitedOnce ==
    /\ InPass => IsSuffix(sweep_rest, Keys(pass_settings))
    /\ PassReturned => sweep_rest = <<>>
    /\ \A k \in CallIdx : calls[k].op = "user_medias_gql" => calls[k].amount = MediaCount
    /\ \A i \in 1..Len(pass_settings) :
         LET u == pass_settings[i].id
             old == pass_settings[i].settings
         IN  /\ Cardinality(Logins(u)) <= 1
             /\ UserDone(u) => Cardinality(Logins(u)) = IF old.auto_repost THEN 1 ELSE 0
             /\ (UserDone(u) /\ \E k \in Logins(u) : calls[k].ok)
                  => FetchedSources(u) = old.source_accounts
             /\ (InPass /\ pc # "sweep" /\ cur_user = u)
                  => FetchedSources(u) \o src_rest = old.source_accounts
             /\ (\A k \in Logins(u) : ~calls[k].ok) => FetchedSources(u) = <<>>

\* what is left of the pass: users, then sources of the user, then items of the source
Rank ==
    << Len(sweep_rest),
       IF pc \in {"sources", "media"} THEN Len(src_rest) + 1 ELSE 0,
       IF pc = "media" THEN Len(media_rest) + 1 ELSE 0 >>

\* lexicographic order on ranks
Less(r, t) ==
    \/ r[1] < t[1]
    \/ r[1] = t[1] /\ r[2] < t[2]
    \/ r[1] = t[1] /\ r[2] = t[2] /\ r[3] < t[3]

\* a pass that has time left on the model's clock can take a step
PassCanStep == (InPass /\ now + DelaySeconds <= MaxTime) => ENABLED JobNext

\* C19: every Platform call returning, a pass terminates: inside a pass a step is
\* always possible and each step leaves strictly less to do; the pass visits each
\* user record once and, for each eligible user logged in, asks for the media of
\* each source once, in list order, with a count of 5.
C19_PassTerminatesVisitingOnce ==
    /\ [](VisitedOnce /\ PassCanStep)
    /\ [][(InPass /\ InPass') => Less(Rank', Rank)]_vars

\* a pass has returned after both users were visited, the first with its two
\* sources fetched in list order
C19_Witness ==
    /\ PassReturned
    /\ FetchedSources(pass_settings[1].id) = <<Alice, Bob>>
    /\ Cardinality(Logins(pass_settings[2].id)) = 1

====
